---- MODULE Spec2Model ----
(***************************************************************************)
(* Evaluation and monitoring engine of clinical-ai-monitor                 *)
(* (backend/api/models): evaluation endpoints with per-model evaluation    *)
(* histories kept in memory and in one JSON file per endpoint, the         *)
(* performance aggregation that reads the JSON file, and the safety        *)
(* verdict computed from the metric cards and the stored model record.     *)
(*                                                                         *)
(* Time is counted in hours.  Metric values and thresholds are counted in  *)
(* hundredths (85 stands for 0.85).  Endpoint names and model ids, which   *)
(* the program draws from uuid4, are numbered in allocation order.         *)
(***************************************************************************)
EXTENDS Integers, Sequences, FiniteSets, TLC

(***************************************************************************)
(* Bounds of the model                                                     *)
(***************************************************************************)
MaxEndpoints == 1
MaxModels == 1
MaxEvals == 2
MaxTicks == 1
MaxUpdates == 1
MaxScore == 3
MaxBound == 1

(***************************************************************************)
(* Text.  A string is modelled by its separator and its words, each word   *)
(* in lower case together with the way it is capitalised, so that          *)
(* str.lower(), str.title(), str.replace("_", " ") and str.split("_") are  *)
(* computed and not assumed.                                               *)
(***************************************************************************)
Word(w, c) == [w |-> w, c |-> c]

Str(sep, words) == [sep |-> IF Len(words) <= 1 THEN "" ELSE sep, words |-> words]

LowerWords(ws) == [i \in 1..Len(ws) |-> Word(ws[i].w, "lower")]

Ident(ws) == Str("_", LowerWords(ws))

lower(s) == Str(s.sep, LowerWords(s.words))

title(s) == Str(s.sep, [i \in 1..Len(s.words) |-> Word(s.words[i].w, "title")])

replace_underscore(s) == Str(IF s.sep = "_" THEN " " ELSE s.sep, s.words)

split_first(s) == IF s.sep = "_" THEN Str("", <<s.words[1]>>) ELSE s

TypeName(type, name) == Str("_", type.words \o name.words)

binary == Ident(<<Word("binary", "lower")>>)
accuracy == Ident(<<Word("accuracy", "lower")>>)
mcc == Ident(<<Word("mcc", "lower")>>)
binary_accuracy == TypeName(binary, accuracy)
binary_mcc == TypeName(binary, mcc)

(***************************************************************************)
(* performance.py: the display names and format_metric_name                *)
(***************************************************************************)
METRIC_DISPLAY_NAMES ==
    (binary_accuracy :> Str(" ", <<Word("accuracy", "title")>>))
    @@ (TypeName(binary, Ident(<<Word("precision", "lower")>>))
           :> Str(" ", <<Word("precision", "title")>>))
    @@ (TypeName(binary, Ident(<<Word("recall", "lower")>>))
           :> Str(" ", <<Word("recall", "title")>>))
    @@ (TypeName(binary, Ident(<<Word("f1", "lower"), Word("score", "lower")>>))
           :> Str(" ", <<Word("f1", "title"), Word("score", "title")>>))
    @@ (TypeName(binary, Ident(<<Word("auroc", "lower")>>))
           :> Str(" ", <<Word("auroc", "upper")>>))

format_metric_name(metric) ==
    IF metric \in DOMAIN METRIC_DISPLAY_NAMES
    THEN METRIC_DISPLAY_NAMES[metric]
    ELSE title(replace_underscore(metric))

(***************************************************************************)
(* Clock, inputs and the external collaborators                            *)
(***************************************************************************)
HoursPerDay == 24

HoursPerWeek == 7 * HoursPerDay

T0 == 42 * HoursPerDay

(* Optional values: None, or Some(x) *)
None == <<>>

Some(x) == <<x>>

GhostId == MaxModels + 1

EndpointNames == 1..MaxEndpoints

ModelIds == 1..MaxModels

Ages == {30 * HoursPerDay, 40 * HoursPerDay}

RangeCondition(min, max) ==
    [type |-> "range", value |-> None, min_value |-> Some(min), max_value |-> Some(max)]

MetricConfig(type, name) == [type |-> type, name |-> name]

SubgroupConfig(column, condition) == [column |-> column, condition |-> condition]

EndpointConfig(metrics, subgroups) == [metrics |-> metrics, subgroups |-> subgroups]

Configs ==
    { EndpointConfig(<<MetricConfig(binary, accuracy), MetricConfig(binary, mcc)>>,
                     <<SubgroupConfig("age", RangeCondition(0, 50))>>) }

(* timestamps as the program writes and reads them in JSON *)
isoformat(t) == [iso |-> t]

(* a parse that reads the date and drops the time of day *)
fromisoformat_date(s) == (s.iso \div HoursPerDay) * HoursPerDay

fromisoformat(s) == s.iso

(* numpy scalars as the metric library returns them *)
np_float(v) == [np |-> v]

deep_convert_numpy_value(v) == IF DOMAIN v = {"np"} THEN v.np ELSE v

(***************************************************************************)
(* evaluate.py: names of the configured metrics and of the slices          *)
(***************************************************************************)
metric_names(config) ==
    [i \in 1..Len(config.metrics) |->
        TypeName(config.metrics[i].type, config.metrics[i].name)]

slice_names(config) ==
    [i \in 1..Len(config.subgroups) |-> config.subgroups[i].column] \o <<"overall">>

Range(f) == {f[i] : i \in DOMAIN f}

(* The metric library: one value per slice and metric.  first and rest    *)
(* are the values of the first listed slice and of the other slices.      *)
evaluator_evaluate(config, first, rest) ==
    [model_for_preds_prob |->
        [sl \in Range(slice_names(config)) |->
            [mt \in Range(metric_names(config)) |->
                np_float(IF sl = slice_names(config)[1] THEN first ELSE rest)]]]

EvaluatorValues == {<<85, 85>>, <<55, 85>>, <<85, 55>>}

(***************************************************************************)
(* data.py: EvaluationInput and its validators.  values holds the fields   *)
(* validated before the field at hand, as pydantic passes them.            *)
(***************************************************************************)
validate_list_lengths(v, values) ==
    IF /\ "preds_prob" \in DOMAIN values
       /\ "target" \in DOMAIN values
       /\ Len(values["preds_prob"]) # Len(values["target"])
    THEN "ValueError"
    ELSE "ok"

(* the order in which a request lists its metadata columns *)
MetadataColumns == <<"age", "sex">>

(* the first column, in the order of v.items(), whose length is not n *)
first_mismatch(v, n) ==
    LET bad == {i \in 1..Len(MetadataColumns) :
                   /\ MetadataColumns[i] \in DOMAIN v
                   /\ Len(v[MetadataColumns[i]]) # n}
    IN  MetadataColumns[CHOOSE i \in bad : \A j \in bad : i <= j]

(* a validator that is handed no field validated before it *)
validate_metadata_blind(v, values) == [raised |-> "no"]

validate_metadata(v, values) ==
    IF /\ "preds_prob" \in DOMAIN values
       /\ \E key \in DOMAIN v : Len(v[key]) # Len(values["preds_prob"])
    THEN [raised |-> "ValueError",
          key |-> first_mismatch(v, Len(values["preds_prob"]))]
    ELSE [raised |-> "no"]

NoValues == [k \in {} |-> <<>>]

EvaluationInput(preds_prob, target, metadata, timestamp) ==
    LET e1 == validate_list_lengths(preds_prob, NoValues)
        v1 == IF e1 = "ok" THEN ("preds_prob" :> preds_prob) ELSE NoValues
        e2 == validate_list_lengths(target, v1)
        v2 == IF e2 = "ok" THEN v1 @@ ("target" :> target) ELSE v1
        e3 == validate_metadata(metadata, v2)
    IN  IF e1 = "ok" /\ e2 = "ok" /\ e3.raised = "no"
        THEN [valid |-> TRUE, preds_prob |-> preds_prob, target |-> target,
              metadata |-> metadata, timestamp |-> timestamp, errors |-> <<>>]
        ELSE [valid |-> FALSE, preds_prob |-> preds_prob, target |-> target,
              metadata |-> metadata, timestamp |-> timestamp,
              errors |-> (IF e1 = "ok" THEN <<>> ELSE <<[loc |-> "preds_prob"]>>)
                         \o (IF e2 = "ok" THEN <<>> ELSE <<[loc |-> "target"]>>)
                         \o (IF e3.raised = "no" THEN <<>>
                             ELSE <<[loc |-> "metadata", key |-> e3.key]>>)]

Timestamps(t) == {None} \cup {Some(t - a) : a \in Ages}

(* pandas.DataFrame refuses columns of different lengths *)
DataFrameOk(data) ==
    /\ Len(data.preds_prob) = Len(data.target)
    /\ \A key \in DOMAIN data.metadata : Len(data.metadata[key]) = Len(data.preds_prob)

(***************************************************************************)
(* data.py: EvaluationResult, EndpointLog, EndpointData, ModelData         *)
(***************************************************************************)
process_evaluation_result(v) ==
    [k \in DOMAIN v |->
        [sl \in DOMAIN v[k] |->
            [mt \in DOMAIN v[k][sl] |-> deep_convert_numpy_value(v[k][sl][mt])]]]

EvaluationResult(metrics, subgroups, evaluation_result, timestamp, sample_size) ==
    [metrics |-> metrics, subgroups |-> subgroups,
     evaluation_result |-> process_evaluation_result(evaluation_result),
     timestamp |-> timestamp, sample_size |-> sample_size]

EndpointLog(timestamp, action, details, endpoint_name) ==
    [timestamp |-> timestamp, action |-> action, details |-> details,
     endpoint_name |-> endpoint_name]

NoHistory == [k \in {} |-> <<>>]

EndpointData(config) ==
    [config |-> config, evaluation_history |-> NoHistory, logs |-> <<>>, models |-> <<>>]

BasicInfo == [name |-> "model", version |-> "1"]

ModelData(id, endpoints, basic_info, evaluation_criteria, evaluation_frequency) ==
    [id |-> id, endpoints |-> endpoints, basic_info |-> basic_info, facts |-> None,
     evaluation_criteria |-> evaluation_criteria,
     evaluation_frequency |-> evaluation_frequency]

EvaluationFrequency(value, unit) == [value |-> value, unit |-> unit]

EvaluationCriterion(metric_name, operator, threshold) ==
    [metric_name |-> metric_name, display_name |-> metric_name,
     operator |-> operator, threshold |-> threshold]

(***************************************************************************)
(* utils.py, evaluate.py: the JSON form of the endpoint data               *)
(* (self.data.dict() through deep_convert_numpy) and its parse             *)
(***************************************************************************)
deep_convert_numpy(data) ==
    [config |-> data.config,
     evaluation_history |->
        [m \in DOMAIN data.evaluation_history |->
            [i \in 1..Len(data.evaluation_history[m]) |->
                [data.evaluation_history[m][i] EXCEPT !.timestamp = isoformat(@)]]],
     logs |-> [i \in 1..Len(data.logs) |->
                [data.logs[i] EXCEPT !.timestamp = isoformat(@)]],
     models |-> data.models]

(* a parse that does not read the subgroups of the configuration *)
EndpointData_parse_no_subgroups(json) ==
    [config |-> [json.config EXCEPT !.subgroups = <<>>],
     evaluation_history |->
        [m \in DOMAIN json.evaluation_history |->
            [i \in 1..Len(json.evaluation_history[m]) |->
                [json.evaluation_history[m][i] EXCEPT !.timestamp = fromisoformat(@)]]],
     logs |-> [i \in 1..Len(json.logs) |->
                [json.logs[i] EXCEPT !.timestamp = fromisoformat(@)]],
     models |-> json.models]

EndpointData_parse(json) ==
    [config |-> json.config,
     evaluation_history |->
        [m \in DOMAIN json.evaluation_history |->
            [i \in 1..Len(json.evaluation_history[m]) |->
                [json.evaluation_history[m][i] EXCEPT !.timestamp = fromisoformat(@)]]],
     logs |-> [i \in 1..Len(json.logs) |->
                [json.logs[i] EXCEPT !.timestamp = fromisoformat(@)]],
     models |-> json.models]

(***************************************************************************)
(* State                                                                   *)
(***************************************************************************)
VARIABLES
    evaluation_endpoints,  \* evaluate.py: registry name -> EvaluationEndpoint
    models,                \* evaluate.py: registry model id -> ModelData
    endpoint_files,        \* DATA_DIR/<endpoint name>.json
    model_files,           \* DATA_DIR/model_<model id>.json
    now,                   \* datetime.now()
    uuids,                 \* number of endpoint names and model ids drawn so far
    calls,                 \* number of recorded evaluations and of record updates
    requests,              \* evaluate requests in flight, by worker
    completed,             \* number of evaluate requests that returned, by key
    response               \* what the last call returned or raised

vars == <<evaluation_endpoints, models, endpoint_files, model_files, now, uuids,
          calls, requests, completed, response>>

Workers == {1, 2}

Idle == [pc |-> "idle"]

Init ==
    /\ evaluation_endpoints = [n \in {} |-> None]
    /\ models = [m \in {} |-> None]
    /\ endpoint_files = [n \in {} |-> None]
    /\ model_files = [m \in {} |-> None]
    /\ now = T0
    /\ uuids = [endpoint |-> 0, model |-> 0]
    /\ calls = [evals |-> 0, updates |-> 0]
    /\ requests = [w \in Workers |-> Idle]
    /\ completed = [k \in {} |-> 0]
    /\ response = [op |-> "none"]

Put(f, k, v) == [x \in DOMAIN f \cup {k} |-> IF x = k THEN v ELSE f[x]]

Del(f, k) == [x \in DOMAIN f \ {k} |-> f[x]]

(***************************************************************************)
(* evaluate.py: EvaluationEndpoint                                         *)
(***************************************************************************)
_load_data(files, name) ==
    IF name \in DOMAIN files THEN Some(EndpointData_parse(files[name])) ELSE None

(* a save that writes the file only when there is none yet *)
_save_data_once(files, endpoint) ==
    IF endpoint.name \in DOMAIN files
    THEN files
    ELSE Put(files, endpoint.name, deep_convert_numpy(endpoint.data))

_save_data(files, endpoint) == Put(files, endpoint.name, deep_convert_numpy(endpoint.data))

EvaluationEndpoint(files, config, name) ==
    [config |-> config, name |-> name,
     data |-> IF _load_data(files, name) # None
              THEN _load_data(files, name)[1]
              ELSE EndpointData(config)]

(* create_evaluation_endpoint *)
CreateEndpoint(config) ==
    /\ uuids.endpoint < MaxEndpoints
    /\ LET endpoint_name == uuids.endpoint + 1
           endpoint == EvaluationEndpoint(endpoint_files, config, endpoint_name)
       IN  /\ uuids' = [uuids EXCEPT !.endpoint = endpoint_name]
           /\ endpoint_files' = _save_data(endpoint_files, endpoint)
           /\ evaluation_endpoints' = Put(evaluation_endpoints, endpoint_name, endpoint)
           /\ response' = [op |-> "create_evaluation_endpoint", status |-> "ok",
                           endpoint_name |-> endpoint_name]
    /\ UNCHANGED <<models, model_files, now, calls, requests, completed>>

(* delete_evaluation_endpoint *)
(* a deletion that is content when there is nothing to delete *)
DeleteEndpoint_quiet(endpoint_name) ==
    /\ evaluation_endpoints' = Del(evaluation_endpoints, endpoint_name)
    /\ endpoint_files' = Del(endpoint_files, endpoint_name)
    /\ response' = [op |-> "delete_evaluation_endpoint", status |-> "ok",
                    endpoint_name |-> endpoint_name]
    /\ UNCHANGED <<models, model_files, now, uuids, calls, requests, completed>>

DeleteEndpoint(endpoint_name) ==
    /\ IF endpoint_name \notin DOMAIN evaluation_endpoints
       THEN /\ response' = [op |-> "delete_evaluation_endpoint", status |-> "ValueError",
                            endpoint_name |-> endpoint_name]
            /\ UNCHANGED <<evaluation_endpoints, endpoint_files>>
       ELSE /\ evaluation_endpoints' = Del(evaluation_endpoints, endpoint_name)
            /\ endpoint_files' = Del(endpoint_files, endpoint_name)
            /\ response' = [op |-> "delete_evaluation_endpoint", status |-> "ok",
                            endpoint_name |-> endpoint_name]
    /\ UNCHANGED <<models, model_files, now, uuids, calls, requests, completed>>

(***************************************************************************)
(* Model records                                                           *)
(***************************************************************************)
(* data.py _default_data: the frequency a new model record starts with *)
DefaultFrequency == Some(EvaluationFrequency(30, "days"))

(* db.py save_model_data / load_model_data *)
save_model_data(files, model_id, data) == Put(files, model_id, data)

load_model_data(files, model_id) ==
    IF model_id \in DOMAIN files THEN Some(files[model_id]) ELSE None

AppendLog(endpoint, action, details, t) ==
    [endpoint EXCEPT !.data.logs =
        Append(@, EndpointLog(t, action, details, endpoint.name))]

(* EvaluationEndpoint.add_model and add_model_to_endpoint *)
AddModel(endpoint_name, frequency) ==
    /\ uuids.model < MaxModels
    /\ IF endpoint_name \notin DOMAIN evaluation_endpoints
       THEN /\ response' = [op |-> "add_model_to_endpoint", status |-> "ValueError",
                            endpoint_name |-> endpoint_name]
            /\ UNCHANGED <<evaluation_endpoints, models, endpoint_files, model_files,
                           uuids>>
       ELSE LET model_id == uuids.model + 1
                endpoint == evaluation_endpoints[endpoint_name]
                model_data == ModelData(model_id, <<endpoint_name>>, BasicInfo,
                                        <<>>, frequency)
                added == AppendLog([endpoint EXCEPT !.data.models = Append(@, model_id)],
                                   "added_model", Some(model_id), now)
            IN  /\ uuids' = [uuids EXCEPT !.model = model_id]
                /\ model_files' = save_model_data(model_files, model_id, model_data)
                /\ evaluation_endpoints' = Put(evaluation_endpoints, endpoint_name, added)
                /\ endpoint_files' = _save_data(endpoint_files, added)
                /\ models' =
                     IF model_id \in DOMAIN models
                     THEN [models EXCEPT ![model_id].endpoints = Append(@, endpoint_name)]
                     ELSE Put(models, model_id,
                              ModelData(model_id, <<endpoint_name>>, BasicInfo, <<>>, None))
                /\ response' = [op |-> "add_model_to_endpoint", status |-> "ok",
                                endpoint_name |-> endpoint_name, model_id |-> model_id]
    /\ UNCHANGED <<now, calls, requests, completed>>

Remove(seq, x) ==
    LET i == CHOOSE j \in 1..Len(seq) : seq[j] = x /\ \A k \in 1..(j - 1) : seq[k] # x
    IN  [k \in 1..(Len(seq) - 1) |-> IF k < i THEN seq[k] ELSE seq[k + 1]]

(* a removal that also drops the evaluations of the model *)
remove_model_and_history(endpoint, model_id, t) ==
    AppendLog([endpoint EXCEPT !.data.models = Remove(@, model_id),
                               !.data.evaluation_history = Del(@, model_id)],
              "removed_model", Some(model_id), t)

(* EvaluationEndpoint.remove_model, the model being in the endpoint *)
remove_model(endpoint, model_id, t) ==
    AppendLog([endpoint EXCEPT !.data.models = Remove(@, model_id)],
              "removed_model", Some(model_id), t)

(* remove_model_from_endpoint *)
RemoveModel(endpoint_name, model_id) ==
    /\ IF endpoint_name \notin DOMAIN evaluation_endpoints
       THEN /\ response' = [op |-> "remove_model_from_endpoint", status |-> "ValueError",
                            endpoint_name |-> endpoint_name, model_id |-> model_id]
            /\ UNCHANGED <<evaluation_endpoints, models, endpoint_files>>
       ELSE LET endpoint == evaluation_endpoints[endpoint_name]
            IN  IF model_id \notin Range(endpoint.data.models)
                THEN /\ response' = [op |-> "remove_model_from_endpoint",
                                     status |-> "ValueError",
                                     endpoint_name |-> endpoint_name,
                                     model_id |-> model_id]
                     /\ UNCHANGED <<evaluation_endpoints, models, endpoint_files>>
                ELSE LET removed == remove_model(endpoint, model_id, now)
                     IN  /\ evaluation_endpoints' =
                                Put(evaluation_endpoints, endpoint_name, removed)
                         /\ endpoint_files' = _save_data(endpoint_files, removed)
                         /\ IF model_id \in DOMAIN models
                            THEN /\ models' = Del(models, model_id)
                                 /\ response' = [op |-> "remove_model_from_endpoint",
                                                 status |-> "ok",
                                                 endpoint_name |-> endpoint_name,
                                                 model_id |-> model_id]
                            ELSE /\ models' = models
                                 /\ response' = [op |-> "remove_model_from_endpoint",
                                                 status |-> "KeyError",
                                                 endpoint_name |-> endpoint_name,
                                                 model_id |-> model_id]
    /\ UNCHANGED <<model_files, now, uuids, calls, requests, completed>>

(* the clock advances by one hour *)
Tick ==
    /\ now < T0 + MaxTicks
    /\ now' = now + 1
    /\ UNCHANGED <<evaluation_endpoints, models, endpoint_files, model_files, uuids,
                   calls, requests, completed, response>>

(***************************************************************************)
(* evaluate.py: EvaluationEndpoint.evaluate and evaluate_model             *)
(***************************************************************************)
(* the metric library cannot slice on a column the input does not carry *)
ColumnsPresent(config, data) ==
    \A i \in 1..Len(config.subgroups) :
        config.subgroups[i].column \in DOMAIN data.metadata

(* a result that lists the metrics by name, without their type *)
evaluation_result_of_bare_names(endpoint, data, result, t) ==
    EvaluationResult(
        [i \in 1..Len(endpoint.config.metrics) |-> endpoint.config.metrics[i].name],
        [i \in 1..Len(slice_names(endpoint.config)) |-> slice_names(endpoint.config)[i]],
        result,
        IF data.timestamp # None THEN data.timestamp[1] ELSE t,
        Len(data.preds_prob))

(* lines 140-153: the EvaluationResult built from the library's result *)
evaluation_result_of(endpoint, data, result, t) ==
    EvaluationResult(
        metric_names(endpoint.config),
        [i \in 1..Len(slice_names(endpoint.config)) |-> slice_names(endpoint.config)[i]],
        result,
        IF data.timestamp # None THEN data.timestamp[1] ELSE t,
        Len(data.preds_prob))

(* a store that puts the new result at the head of the list *)
history_prepend(endpoint, model_id, evaluation_result) ==
    [endpoint EXCEPT !.data.evaluation_history =
        Put(@, model_id,
            <<evaluation_result>> \o
                (IF model_id \in DOMAIN @ THEN @[model_id] ELSE <<>>))]

(* lines 154-156: the history entry of the model is created and appended to *)
history_append(endpoint, model_id, evaluation_result) ==
    [endpoint EXCEPT !.data.evaluation_history =
        Put(@, model_id,
            Append(IF model_id \in DOMAIN @ THEN @[model_id] ELSE <<>>,
                   evaluation_result))]

Key(endpoint_name, model_id) == <<endpoint_name, model_id>>

Bump(f, k) == Put(f, k, IF k \in DOMAIN f THEN f[k] + 1 ELSE 1)

(* an evaluate that records the call before the metric library has run *)
evaluate_logged_first(endpoint, model_id, data, library_ok, values, t) ==
    IF ~DataFrameOk(data)
    THEN [raised |-> "DataFrameError", endpoint |-> endpoint]
    ELSE IF ~library_ok \/ ~ColumnsPresent(endpoint.config, data)
    THEN [raised |-> "ComputationError",
          endpoint |-> AppendLog(endpoint, "evaluated", None, t)]
    ELSE LET result == evaluator_evaluate(endpoint.config, values[1], values[2])
             evaluation_result == evaluation_result_of(endpoint, data, result, t)
         IN  [raised |-> "no",
              endpoint |-> AppendLog(history_append(endpoint, model_id, evaluation_result),
                                     "evaluated", None, t),
              evaluation_result |-> evaluation_result]

(* EvaluationEndpoint.evaluate up to the call of _save_data: what it raises *)
(* and the endpoint object it leaves                                       *)
evaluate(endpoint, model_id, data, library_ok, values, t) ==
    IF ~DataFrameOk(data)
    THEN [raised |-> "DataFrameError", endpoint |-> endpoint]
    ELSE IF ~library_ok \/ ~ColumnsPresent(endpoint.config, data)
    THEN [raised |-> "ComputationError", endpoint |-> endpoint]
    ELSE LET result == evaluator_evaluate(endpoint.config, values[1], values[2])
             evaluation_result == evaluation_result_of(endpoint, data, result, t)
         IN  [raised |-> "no",
              endpoint |-> AppendLog(history_append(endpoint, model_id, evaluation_result),
                                     "evaluated", None, t),
              evaluation_result |-> evaluation_result]

Failed(op, status, endpoint_name, data) ==
    [op |-> op, status |-> status, n_preds |-> Len(data.preds_prob),
     n_target |-> Len(data.target),
     n_metadata |-> [key \in DOMAIN data.metadata |-> Len(data.metadata[key])],
     errors |-> data.errors, endpoint_name |-> endpoint_name]

Returned(op, status, endpoint_name, model_id, data, evaluation_result) ==
    [op |-> op, status |-> status, n_preds |-> Len(data.preds_prob),
     n_target |-> Len(data.target),
     n_metadata |-> [key \in DOMAIN data.metadata |-> Len(data.metadata[key])],
     errors |-> data.errors, endpoint_name |-> endpoint_name,
     model_id |-> model_id, evaluation_result |-> evaluation_result]

(* evaluate_model; the EvaluationInput was constructed by the caller *)
Evaluate(endpoint_name, model_id, data, library_ok, values, store_ok) ==
    /\ \A w \in Workers : requests[w].pc = "idle"
    /\ IF ~data.valid
       THEN /\ response' = Failed("evaluate_model", "ValidationError", endpoint_name, data)
            /\ UNCHANGED <<evaluation_endpoints, endpoint_files, calls, completed>>
       ELSE IF endpoint_name \notin DOMAIN evaluation_endpoints
       THEN /\ response' = Failed("evaluate_model", "ValueError", endpoint_name, data)
            /\ UNCHANGED <<evaluation_endpoints, endpoint_files, calls, completed>>
       ELSE LET call == evaluate(evaluation_endpoints[endpoint_name], model_id, data,
                                 library_ok, values, now)
            IN  IF call.raised # "no"
                THEN /\ response' = Failed("evaluate_model", call.raised, endpoint_name, data)
                     /\ evaluation_endpoints' =
                            Put(evaluation_endpoints, endpoint_name, call.endpoint)
                     /\ UNCHANGED <<endpoint_files, calls, completed>>
                ELSE /\ calls.evals < MaxEvals
                     /\ calls' = [calls EXCEPT !.evals = @ + 1]
                     /\ evaluation_endpoints' =
                            Put(evaluation_endpoints, endpoint_name, call.endpoint)
                     /\ IF store_ok
                        THEN /\ endpoint_files' = _save_data(endpoint_files, call.endpoint)
                             /\ completed' = Bump(completed, Key(endpoint_name, model_id))
                             /\ response' = Returned("evaluate_model", "ok", endpoint_name,
                                                     model_id, data, call.evaluation_result)
                        ELSE /\ endpoint_files' = endpoint_files
                             /\ completed' = completed
                             /\ response' = Returned("evaluate_model", "PersistenceError",
                                                     endpoint_name, model_id, data,
                                                     call.evaluation_result)
    /\ UNCHANGED <<models, model_files, now, uuids, requests>>

(* Inputs of evaluate: well-formed batches of two rows and of one row, a   *)
(* target list shorter than preds_prob, a metadata column shorter than     *)
(* preds_prob, and a batch without the metadata column.                    *)
ValidInput(ts) == EvaluationInput(<<1, 0>>, <<1, 0>>, ("age" :> <<1, 0>>), ts)

SmallInput == EvaluationInput(<<1>>, <<1>>, ("age" :> <<1>>), None)

ValidInputs(t) == {ValidInput(None), ValidInput(Some(t - 30 * HoursPerDay))}

InvalidInputs ==
    { EvaluationInput(<<1, 0>>, <<1>>, ("age" :> <<1, 0>>), None),
      EvaluationInput(<<1, 0>>, <<1, 0>>, ("age" :> <<1>>), None),
      EvaluationInput(<<1, 0>>, <<1, 0>>, ("age" :> <<1, 0>> @@ "sex" :> <<1>>), None),
      EvaluationInput(<<1, 0>>, <<1, 0>>, ("age" :> <<1>> @@ "sex" :> <<>>), None),
      EvaluationInput(<<1, 0>>, <<1, 0>>, NoValues, None) }

Inputs(t) == ValidInputs(t) \cup InvalidInputs

(***************************************************************************)
(* performance.py: create_metric and get_performance_metrics, over the     *)
(* JSON file of the endpoint                                               *)
(***************************************************************************)
PerformanceThreshold == 60

METRIC_TOOLTIPS(metric) ==
    IF metric \in DOMAIN METRIC_DISPLAY_NAMES
    THEN [tooltip |-> metric]
    ELSE [no_tooltip |-> metric]

(* .get(slice_, {}).get(metric, 0.0) *)
value_of(eval_result, slice_, metric) ==
    LET by_slice == eval_result.evaluation_result.model_for_preds_prob
    IN  IF slice_ \in DOMAIN by_slice /\ metric \in DOMAIN by_slice[slice_]
        THEN by_slice[slice_][metric]
        ELSE 0

(* a card that lists the evaluations newest first *)
create_metric_newest_first(metric, slice_, evaluation_history, threshold) ==
    LET n == Len(evaluation_history)
        history == [i \in 1..n |->
                        value_of(evaluation_history[n + 1 - i], slice_, metric)]
        timestamps == [i \in 1..n |-> evaluation_history[n + 1 - i].timestamp]
        sample_sizes == [i \in 1..n |-> evaluation_history[n + 1 - i].sample_size]
        latest_value == IF Len(history) > 0 THEN history[Len(history)] ELSE 0
    IN  [name |-> format_metric_name(metric),
         type |-> split_first(metric),
         slice |-> slice_,
         tooltip |-> METRIC_TOOLTIPS(metric),
         value |-> latest_value,
         threshold |-> threshold,
         passed |-> latest_value >= threshold,
         history |-> history,
         timestamps |-> timestamps,
         sample_sizes |-> sample_sizes]

create_metric(metric, slice_, evaluation_history, threshold) ==
    LET history == [i \in 1..Len(evaluation_history) |->
                        value_of(evaluation_history[i], slice_, metric)]
        timestamps == [i \in 1..Len(evaluation_history) |->
                        evaluation_history[i].timestamp]
        sample_sizes == [i \in 1..Len(evaluation_history) |->
                        evaluation_history[i].sample_size]
        latest_value == IF Len(history) > 0 THEN history[Len(history)] ELSE 0
    IN  [name |-> format_metric_name(metric),
         type |-> split_first(metric),
         slice |-> slice_,
         tooltip |-> METRIC_TOOLTIPS(metric),
         value |-> latest_value,
         threshold |-> threshold,
         passed |-> latest_value >= threshold,
         history |-> history,
         timestamps |-> timestamps,
         sample_sizes |-> sample_sizes]

(* the evaluations of one model within the endpoint's JSON data *)
model_history(data, model_id) ==
    IF model_id \in DOMAIN data.evaluation_history
    THEN data.evaluation_history[model_id]
    ELSE <<>>

get_performance_metrics(files, endpoint_name, model_id) ==
    IF endpoint_name \notin DOMAIN files
    THEN [status |-> 404, detail |-> "endpoint not found"]
    ELSE LET evaluation_history == model_history(files[endpoint_name], model_id)
         IN  IF Len(evaluation_history) = 0
             THEN [status |-> 404, detail |-> "no evaluation history"]
             ELSE LET latest_evaluation == evaluation_history[Len(evaluation_history)]
                      metrics == latest_evaluation.metrics
                      slices == latest_evaluation.subgroups \o <<"overall">>
                      card(metric, slice_) ==
                          create_metric(metric, slice_, evaluation_history,
                                        PerformanceThreshold)
                  IN  [status |-> 200,
                       overview |->
                         [last_n_evals |-> 10,
                          mean_std_min_evals |-> 3,
                          metric_cards |->
                            [metrics |-> [i \in 1..Len(metrics) |->
                                            format_metric_name(metrics[i])],
                             tooltips |-> [i \in 1..Len(metrics) |->
                                            METRIC_TOOLTIPS(metrics[i])],
                             slices |-> slices,
                             \* for metric in metrics for slice_ in slices
                             collection |->
                               [k \in 1..(Len(metrics) * Len(slices)) |->
                                  card(metrics[((k - 1) \div Len(slices)) + 1],
                                       slices[((k - 1) % Len(slices)) + 1])]]]]

GetPerformanceMetrics(endpoint_name, model_id) ==
    /\ response' = [op |-> "get_performance_metrics", endpoint_name |-> endpoint_name,
                    model_id |-> model_id,
                    result |-> get_performance_metrics(endpoint_files, endpoint_name,
                                                       model_id)]
    /\ UNCHANGED <<evaluation_endpoints, models, endpoint_files, model_files, now, uuids,
                   calls, requests, completed>>

(***************************************************************************)
(* safety.py: check_criterion and get_model_safety                         *)
(***************************************************************************)
(* a comparison that takes ">=" for ">" *)
check_criterion_strict(criterion, metric_value) ==
    CASE criterion.operator = ">" -> metric_value > criterion.threshold
      [] criterion.operator = "<" -> metric_value < criterion.threshold
      [] criterion.operator = "=" -> metric_value = criterion.threshold
      [] criterion.operator = ">=" -> metric_value > criterion.threshold
      [] criterion.operator = "<=" -> metric_value <= criterion.threshold
      [] OTHER -> "ValueError"

check_criterion(criterion, metric_value) ==
    CASE criterion.operator = ">" -> metric_value > criterion.threshold
      [] criterion.operator = "<" -> metric_value < criterion.threshold
      [] criterion.operator = "=" -> metric_value = criterion.threshold
      [] criterion.operator = ">=" -> metric_value >= criterion.threshold
      [] criterion.operator = "<=" -> metric_value <= criterion.threshold
      [] OTHER -> "ValueError"

Operators == {">", "<", "=", ">=", "<="}

FrequencyUnits == {"hours", "days", "weeks", "months"}

(* a conversion that takes a month for 31 days *)
frequency_threshold_long_month(evaluation_frequency) ==
    CASE evaluation_frequency.unit = "hours" -> evaluation_frequency.value
      [] evaluation_frequency.unit = "days" -> evaluation_frequency.value * HoursPerDay
      [] evaluation_frequency.unit = "weeks" -> evaluation_frequency.value * HoursPerWeek
      [] evaluation_frequency.unit = "months" ->
            evaluation_frequency.value * 31 * HoursPerDay

(* lines 140-149: timedelta of the evaluation frequency, in hours *)
frequency_threshold(evaluation_frequency) ==
    CASE evaluation_frequency.unit = "hours" -> evaluation_frequency.value
      [] evaluation_frequency.unit = "days" -> evaluation_frequency.value * HoursPerDay
      [] evaluation_frequency.unit = "weeks" -> evaluation_frequency.value * HoursPerWeek
      [] evaluation_frequency.unit = "months" ->
            evaluation_frequency.value * 30 * HoursPerDay

(* lines 103-112: next(m for m in collection if names match, None) *)
(* a search that keeps the last card that matches *)
last_match(collection, criterion) ==
    LET hits == {i \in 1..Len(collection) :
                    lower(collection[i].name) = lower(criterion.metric_name)}
    IN  IF hits = {} THEN None
        ELSE Some(collection[CHOOSE i \in hits : \A j \in hits : j <= i])

first_match(collection, criterion) ==
    LET hits == {i \in 1..Len(collection) :
                    lower(collection[i].name) = lower(criterion.metric_name)}
    IN  IF hits = {} THEN None
        ELSE Some(collection[CHOOSE i \in hits : \A j \in hits : i <= j])

(* lines 113-133: the verdict entry of one criterion *)
criterion_metric(criterion, metric_data) ==
    LET status == IF check_criterion(criterion, metric_data.value)
                  THEN "met" ELSE "not met"
    IN  [name |-> criterion.metric_name,
         display_name |-> criterion.display_name,
         value |-> metric_data.value,
         threshold |-> criterion.threshold,
         status |-> status,
         history |-> metric_data.history,
         timestamps |-> metric_data.timestamps,
         sample_sizes |-> metric_data.sample_sizes,
         type |-> metric_data.type,
         slice |-> metric_data.slice,
         tooltip |-> metric_data.tooltip,
         passed |-> status = "met"]

(* a loop that reports a criterion without a card as not met *)
RECURSIVE criteria_metrics_strict(_, _, _)
criteria_metrics_strict(criteria, collection, k) ==
    IF k > Len(criteria) THEN <<>>
    ELSE LET metric_data == first_match(collection, criteria[k])
         IN  (IF metric_data = None
              THEN <<[name |-> criteria[k].metric_name, status |-> "not met"]>>
              ELSE <<criterion_metric(criteria[k], metric_data[1])>>)
             \o criteria_metrics_strict(criteria, collection, k + 1)

RECURSIVE criteria_metrics(_, _, _)
criteria_metrics(criteria, collection, k) ==
    IF k > Len(criteria) THEN <<>>
    ELSE LET metric_data == first_match(collection, criteria[k])
         IN  (IF metric_data = None THEN <<>>
              ELSE <<criterion_metric(criteria[k], metric_data[1])>>)
             \o criteria_metrics(criteria, collection, k + 1)

(* a verdict that is content with either condition *)
overall_status_either(all_criteria_met, is_recently_evaluated) ==
    IF all_criteria_met \/ is_recently_evaluated THEN "No warnings" ELSE "Warning"

(* lines 152-154 *)
overall_status(all_criteria_met, is_recently_evaluated) ==
    IF all_criteria_met /\ is_recently_evaluated THEN "No warnings" ELSE "Warning"

(* lines 135-161 *)
(* a verdict that takes the greatest timestamp of the history *)
safety_verdict_greatest(model_data, collection, current_date) ==
    LET stamps == {fromisoformat(collection[1].timestamps[i]) :
                      i \in 1..Len(collection[1].timestamps)}
        last_evaluated == CHOOSE t \in stamps : \A u \in stamps : u <= t
        metrics == criteria_metrics(model_data.evaluation_criteria, collection, 1)
        all_criteria_met == \A i \in 1..Len(metrics) : metrics[i].status = "met"
        evaluation_frequency ==
            IF model_data.evaluation_frequency # None
            THEN model_data.evaluation_frequency[1]
            ELSE EvaluationFrequency(30, "days")
    IN  IF evaluation_frequency.unit \notin FrequencyUnits
        THEN [raised |-> "ValueError", detail |-> "Unknown frequency unit"]
        ELSE LET threshold == frequency_threshold(evaluation_frequency)
                 is_recently_evaluated == (current_date - last_evaluated) <= threshold
             IN  [raised |-> "no",
                  metrics |-> metrics,
                  last_evaluated |-> isoformat(last_evaluated),
                  overall_status |->
                      overall_status(all_criteria_met, is_recently_evaluated),
                  is_recently_evaluated |-> is_recently_evaluated]

safety_verdict(model_data, collection, current_date) ==
    LET last_evaluated ==
            fromisoformat(collection[1].timestamps[Len(collection[1].timestamps)])
        metrics == criteria_metrics(model_data.evaluation_criteria, collection, 1)
        all_criteria_met == \A i \in 1..Len(metrics) : metrics[i].status = "met"
        evaluation_frequency ==
            IF model_data.evaluation_frequency # None
            THEN model_data.evaluation_frequency[1]
            ELSE EvaluationFrequency(30, "days")
    IN  IF evaluation_frequency.unit \notin FrequencyUnits
        THEN [raised |-> "ValueError", detail |-> "Unknown frequency unit"]
        ELSE LET threshold == frequency_threshold(evaluation_frequency)
                 is_recently_evaluated == (current_date - last_evaluated) <= threshold
             IN  [raised |-> "no",
                  metrics |-> metrics,
                  last_evaluated |-> isoformat(last_evaluated),
                  overall_status |->
                      overall_status(all_criteria_met, is_recently_evaluated),
                  is_recently_evaluated |-> is_recently_evaluated]

(* lines 75-161: the body of the try block *)
get_model_safety_try(mfiles, efiles, current_date, model_id) ==
    LET loaded == load_model_data(mfiles, model_id)
    IN  IF loaded = None
        THEN [raised |-> "HTTPException", code |-> 404, detail |-> "Model not found"]
        ELSE IF Len(loaded[1].endpoints) = 0
        THEN [raised |-> "ValueError", detail |-> "No endpoints found for this model"]
        ELSE LET performance_metrics ==
                     get_performance_metrics(efiles, loaded[1].endpoints[1], model_id)
             IN  IF performance_metrics.status # 200
                 THEN [raised |-> "HTTPException", code |-> performance_metrics.status,
                       detail |-> performance_metrics.detail]
                 ELSE IF Len(performance_metrics.overview.metric_cards.collection) = 0
                 THEN [raised |-> "ValueError",
                       detail |-> "No metrics found in performance data"]
                 ELSE safety_verdict(loaded[1],
                                     performance_metrics.overview.metric_cards.collection,
                                     current_date)

(* lines 162-169: every exception leaves as HTTP 500 *)
get_model_safety(mfiles, efiles, current_date, model_id) ==
    LET r == get_model_safety_try(mfiles, efiles, current_date, model_id)
    IN  IF r.raised = "no"
        THEN [status |-> 200, metrics |-> r.metrics, last_evaluated |-> r.last_evaluated,
              overall_status |-> r.overall_status,
              is_recently_evaluated |-> r.is_recently_evaluated]
        ELSE IF r.raised = "ValueError"
        THEN [status |-> 500, detail |-> r.detail]
        ELSE [status |-> 500,
              detail |-> <<"Error retrieving model safety", r.code, r.detail>>]

GetModelSafety(model_id) ==
    /\ response' = [op |-> "get_model_safety", model_id |-> model_id, at |-> now,
                    result |-> get_model_safety(model_files, endpoint_files, now,
                                                model_id)]
    /\ UNCHANGED <<evaluation_endpoints, models, endpoint_files, model_files, now, uuids,
                   calls, requests, completed>>

(***************************************************************************)
(* The stored model record's criteria and frequency are set through the    *)
(* model routes (tests/test_app.py add_evaluation_criteria,                *)
(* set_evaluation_frequency)                                               *)
(***************************************************************************)
accuracy_name == Str(" ", <<Word("accuracy", "lower")>>)

binary_mcc_name == Str(" ", <<Word("binary", "lower"), Word("mcc", "lower")>>)

CriteriaLists ==
    {<<EvaluationCriterion(accuracy_name, op, 85)>> : op \in Operators}
    \cup { <<EvaluationCriterion(binary_accuracy, ">=", 80)>>,
           <<EvaluationCriterion(accuracy_name, ">=", 80)>>,
           <<EvaluationCriterion(accuracy_name, ">=", 80),
             EvaluationCriterion(binary_mcc_name, "<", 80)>>,
           <<EvaluationCriterion(binary_accuracy, ">=", 80),
             EvaluationCriterion(accuracy_name, ">=", 80)>> }

Frequencies ==
    { None,
      Some(EvaluationFrequency(30 * HoursPerDay, "hours")),
      Some(EvaluationFrequency(5, "weeks")),
      Some(EvaluationFrequency(1, "months")) }

AddEvaluationCriteria(model_id, criteria) ==
    /\ calls.updates < MaxUpdates
    /\ model_id \in DOMAIN model_files
    /\ model_files' = [model_files EXCEPT ![model_id].evaluation_criteria = criteria]
    /\ calls' = [calls EXCEPT !.updates = @ + 1]
    /\ response' = [op |-> "add_evaluation_criteria", model_id |-> model_id]
    /\ UNCHANGED <<evaluation_endpoints, models, endpoint_files, now, uuids, requests,
                   completed>>

SetEvaluationFrequency(model_id, frequency) ==
    /\ calls.updates < MaxUpdates
    /\ model_id \in DOMAIN model_files
    /\ model_files' = [model_files EXCEPT ![model_id].evaluation_frequency = frequency]
    /\ calls' = [calls EXCEPT !.updates = @ + 1]
    /\ response' = [op |-> "set_evaluation_frequency", model_id |-> model_id]
    /\ UNCHANGED <<evaluation_endpoints, models, endpoint_files, now, uuids, requests,
                   completed>>

(* model ids a caller can name: those handed out so far, and one that was *)
(* never handed out                                                       *)
KnownModelIds == (1..uuids.model) \cup {GhostId}

Next ==
    \/ \E config \in Configs : CreateEndpoint(config)
    \/ \E endpoint_name \in EndpointNames : DeleteEndpoint(endpoint_name)
    \/ \E endpoint_name \in EndpointNames : AddModel(endpoint_name, DefaultFrequency)
    \/ \E endpoint_name \in EndpointNames, model_id \in KnownModelIds :
          RemoveModel(endpoint_name, model_id)
    \/ \E endpoint_name \in EndpointNames, model_id \in KnownModelIds :
          \/ \E data \in ValidInputs(now), values \in {<<85, 85>>, <<55, 85>>},
                store_ok \in BOOLEAN :
                Evaluate(endpoint_name, model_id, data, TRUE, values, store_ok)
          \/ \E data \in Inputs(now) :
                Evaluate(endpoint_name, model_id, data, FALSE, <<85, 85>>, TRUE)
          \/ \E data \in InvalidInputs :
                Evaluate(endpoint_name, model_id, data, TRUE, <<85, 85>>, TRUE)

Spec == Init /\ [][Next]_vars

(***************************************************************************)
(* The process starts again: both registries are rebuilt from the files    *)
(* (evaluate.py lines 324-325).                                            *)
(***************************************************************************)
(* EvaluationEndpoint.load: what it raises, the endpoint it returns and    *)
(* the files it leaves (the constructor it calls saves)                    *)
(* a load that makes a new endpoint when there is no file, as the          *)
(* constructor does                                                        *)
load_or_create(files, endpoint_name) ==
    LET config == IF endpoint_name \in DOMAIN files
                  THEN files[endpoint_name].config
                  ELSE CHOOSE c \in Configs : TRUE
        endpoint == EvaluationEndpoint(files, config, endpoint_name)
    IN  [raised |-> "no", files |-> _save_data(files, endpoint), endpoint |-> endpoint]

load(files, endpoint_name) ==
    IF endpoint_name \notin DOMAIN files
    THEN [raised |-> "ValueError", files |-> files]
    ELSE LET data == files[endpoint_name]
             config == data.config
             endpoint == EvaluationEndpoint(files, config, endpoint_name)
         IN  [raised |-> "no",
              files |-> _save_data(files, endpoint),
              endpoint |-> [endpoint EXCEPT !.data = EndpointData_parse(data)]]

load_all_endpoints(files) ==
    [endpoint_name \in DOMAIN files |-> load(files, endpoint_name).endpoint]

load_all_models(files) ==
    [model_id \in {m \in DOMAIN files : load_model_data(files, m) # None} |->
        load_model_data(files, model_id)[1]]

list_evaluation_endpoints == DOMAIN evaluation_endpoints

Restart ==
    /\ evaluation_endpoints' = load_all_endpoints(endpoint_files)
    /\ endpoint_files' = [endpoint_name \in DOMAIN endpoint_files |->
                             load(endpoint_files, endpoint_name).files[endpoint_name]]
    /\ models' = load_all_models(model_files)
    /\ response' = [op |-> "load_all_endpoints", status |-> "ok"]
    /\ UNCHANGED <<model_files, now, uuids, calls, requests, completed>>

NextRestart ==
    \/ \E config \in Configs : CreateEndpoint(config)
    \/ \E endpoint_name \in EndpointNames : DeleteEndpoint(endpoint_name)
    \/ \E endpoint_name \in EndpointNames : AddModel(endpoint_name, DefaultFrequency)
    \/ \E endpoint_name \in EndpointNames, model_id \in KnownModelIds :
          RemoveModel(endpoint_name, model_id)
    \/ \E endpoint_name \in EndpointNames, model_id \in KnownModelIds,
          store_ok \in BOOLEAN :
          Evaluate(endpoint_name, model_id, ValidInput(None), TRUE, <<55, 85>>, store_ok)
    \/ Restart

SpecRestart == Init /\ [][NextRestart]_vars

(***************************************************************************)
(* Monitoring: evaluations with supplied and defaulted timestamps, the     *)
(* model record's criteria and frequency, the clock, and the two queries   *)
(***************************************************************************)
MonitorInputs(t) == {ValidInput(ts) : ts \in Timestamps(t)} \cup {SmallInput}

NextMonitor ==
    \/ \E config \in Configs : CreateEndpoint(config)
    \/ \E endpoint_name \in EndpointNames : AddModel(endpoint_name, DefaultFrequency)
    \/ \E endpoint_name \in DOMAIN evaluation_endpoints, model_id \in 1..uuids.model,
          data \in MonitorInputs(now), values \in EvaluatorValues :
          Evaluate(endpoint_name, model_id, data, TRUE, values, TRUE)
    \/ \E model_id \in ModelIds, criteria \in CriteriaLists :
          AddEvaluationCriteria(model_id, criteria)
    \/ \E model_id \in ModelIds, frequency \in Frequencies :
          SetEvaluationFrequency(model_id, frequency)
    \/ Tick
    \/ \E endpoint_name \in EndpointNames, model_id \in ModelIds :
          GetPerformanceMetrics(endpoint_name, model_id)
    \/ \E model_id \in ModelIds : GetModelSafety(model_id)

SpecMonitor == Init /\ [][NextMonitor]_vars

(***************************************************************************)
(* Two evaluate requests served at the same time.  EvaluationEndpoint      *)
(* takes no lock, so the statements of evaluate and _save_data of the two  *)
(* requests interleave: the membership test (line 154), the creation of    *)
(* the list (155), the append (156), the log entry (157-163), the          *)
(* serialisation (179) and the write of the file (180-181).                *)
(***************************************************************************)
ReqStart(w, endpoint_name, model_id, data, values) ==
    /\ requests[w].pc = "idle"
    /\ endpoint_name \in DOMAIN evaluation_endpoints
    /\ data.valid /\ DataFrameOk(data)
    /\ ColumnsPresent(evaluation_endpoints[endpoint_name].config, data)
    /\ calls.evals < MaxEvals
    /\ calls' = [calls EXCEPT !.evals = @ + 1]
    /\ LET endpoint == evaluation_endpoints[endpoint_name]
           result == evaluator_evaluate(endpoint.config, values[1], values[2])
       IN  requests' = [requests EXCEPT ![w] =
                [pc |-> "check", endpoint_name |-> endpoint_name,
                 model_id |-> model_id,
                 evaluation_result |->
                     evaluation_result_of(endpoint, data, result, now)]]
    /\ UNCHANGED <<evaluation_endpoints, models, endpoint_files, model_files, now,
                   uuids, completed, response>>

ReqEndpoint(w) == evaluation_endpoints[requests[w].endpoint_name]

ReqCheck(w) ==
    /\ requests[w].pc = "check"
    /\ requests' = [requests EXCEPT ![w].pc =
            IF requests[w].model_id \in DOMAIN ReqEndpoint(w).data.evaluation_history
            THEN "append" ELSE "create"]
    /\ UNCHANGED <<evaluation_endpoints, models, endpoint_files, model_files, now,
                   uuids, calls, completed, response>>

ReqCreate(w) ==
    /\ requests[w].pc = "create"
    /\ evaluation_endpoints' =
         [evaluation_endpoints EXCEPT
            ![requests[w].endpoint_name].data.evaluation_history =
                Put(@, requests[w].model_id, <<>>)]
    /\ requests' = [requests EXCEPT ![w].pc = "append"]
    /\ UNCHANGED <<models, endpoint_files, model_files, now, uuids, calls, completed,
                   response>>

ReqAppend(w) ==
    /\ requests[w].pc = "append"
    /\ evaluation_endpoints' =
         [evaluation_endpoints EXCEPT
            ![requests[w].endpoint_name].data.evaluation_history[requests[w].model_id] =
                Append(@, requests[w].evaluation_result)]
    /\ requests' = [requests EXCEPT ![w].pc = "log"]
    /\ UNCHANGED <<models, endpoint_files, model_files, now, uuids, calls, completed,
                   response>>

ReqLog(w) ==
    /\ requests[w].pc = "log"
    /\ evaluation_endpoints' =
         [evaluation_endpoints EXCEPT
            ![requests[w].endpoint_name] = AppendLog(@, "evaluated", None, now)]
    /\ requests' = [requests EXCEPT ![w].pc = "dict"]
    /\ UNCHANGED <<models, endpoint_files, model_files, now, uuids, calls, completed,
                   response>>

ReqDict(w) ==
    /\ requests[w].pc = "dict"
    /\ requests' = [requests EXCEPT ![w] =
            [pc |-> "write", endpoint_name |-> requests[w].endpoint_name,
             model_id |-> requests[w].model_id,
             serializable_data |-> deep_convert_numpy(ReqEndpoint(w).data)]]
    /\ UNCHANGED <<evaluation_endpoints, models, endpoint_files, model_files, now,
                   uuids, calls, completed, response>>

ReqWrite(w) ==
    /\ requests[w].pc = "write"
    /\ endpoint_files' = Put(endpoint_files, requests[w].endpoint_name,
                             requests[w].serializable_data)
    /\ completed' = Bump(completed, Key(requests[w].endpoint_name, requests[w].model_id))
    /\ response' = [op |-> "evaluate_model", status |-> "ok",
                    endpoint_name |-> requests[w].endpoint_name,
                    model_id |-> requests[w].model_id]
    /\ requests' = [requests EXCEPT ![w] = Idle]
    /\ UNCHANGED <<evaluation_endpoints, models, model_files, now, uuids, calls>>

AllIdle == \A w \in Workers : requests[w].pc = "idle"

NextConcurrent ==
    \/ \E config \in Configs : AllIdle /\ CreateEndpoint(config)
    \/ \E endpoint_name \in EndpointNames :
          AllIdle /\ AddModel(endpoint_name, DefaultFrequency)
    \/ \E w \in Workers, endpoint_name \in DOMAIN evaluation_endpoints,
          model_id \in 1..uuids.model, values \in {<<85, 85>>, <<55, 85>>} :
          ReqStart(w, endpoint_name, model_id, ValidInput(None), values)
    \/ \E w \in Workers : ReqCheck(w)
    \/ \E w \in Workers : ReqCreate(w)
    \/ \E w \in Workers : ReqAppend(w)
    \/ \E w \in Workers : ReqLog(w)
    \/ \E w \in Workers : ReqDict(w)
    \/ \E w \in Workers : ReqWrite(w)

SpecConcurrent == Init /\ [][NextConcurrent]_vars

(***************************************************************************)
(* config.py, constants.py: MetricConfig and SubgroupCondition with their  *)
(* validators, and evaluate.py: _convert_condition_to_dict                 *)
(***************************************************************************)
Name(ws) == Ident([i \in 1..Len(ws) |-> Word(ws[i], "lower")])

VALID_METRIC_NAMES ==
    { TypeName(binary, Name(ws)) :
        ws \in { <<"accuracy">>, <<"auroc">>, <<"average", "precision">>,
                 <<"confusion", "matrix">>, <<"f1", "score">>, <<"fbeta", "score">>,
                 <<"mcc">>, <<"npv">>, <<"ppv">>, <<"precision">>, <<"recall">>,
                 <<"tpr">>, <<"precision", "recall", "curve">>, <<"roc">>,
                 <<"specificity">>, <<"tnr">> } }

validate_type(v) ==
    IF v \notin {binary, Name(<<"multilabel">>), Name(<<"multiclass">>)}
    THEN "ValueError"
    ELSE "ok"

validate_name(v, values) ==
    IF "type" \in DOMAIN values /\ TypeName(values["type"], v) \notin VALID_METRIC_NAMES
    THEN "ValueError"
    ELSE "ok"

(* MetricConfig(name=..., type=...): the fields are validated in the order *)
(* of their declaration, name before type                                  *)
MetricConfig_init(name, type) ==
    LET e1 == validate_name(name, NoValues)
        e2 == validate_type(type)
    IN  IF e1 = "ok" /\ e2 = "ok"
        THEN [raised |-> "no", config |-> MetricConfig(type, name)]
        ELSE [raised |-> "ValidationError"]

MetricTypes == {binary, Name(<<"multiclass">>), Name(<<"regression">>)}

MetricNames == {accuracy, mcc, Name(<<"f1", "score">>), Name(<<"bogus">>)}

NewMetricConfig(name, type) ==
    /\ response' = [op |-> "MetricConfig", name |-> name, type |-> type,
                    result |-> MetricConfig_init(name, type)]
    /\ UNCHANGED <<evaluation_endpoints, models, endpoint_files, model_files, now, uuids,
                   calls, requests, completed>>

ConditionTypes == {"value", "range", "contains", "year", "month", "day"}

(* pydantic's validation of Optional[Union[str, int, float]]: str is tried *)
(* first and takes a number as its decimal text                            *)
str_validator(v) ==
    IF v = None THEN None
    ELSE IF "int" \in DOMAIN v[1] THEN Some([str |-> ToString(v[1].int)])
    ELSE v

(* a range that wants both bounds *)
validate_condition_both_bounds(values) ==
    IF /\ values.type = "range"
       /\ (values.min_value = None \/ values.max_value = None)
    THEN "ValueError"
    ELSE IF /\ values.type \in {"value", "contains", "year", "month", "day"}
            /\ values.value = None
    THEN "ValueError"
    ELSE "ok"

validate_condition(values) ==
    IF /\ values.type = "range"
       /\ values.min_value = None
       /\ values.max_value = None
    THEN "ValueError"
    ELSE IF /\ values.type \in {"value", "contains", "year", "month", "day"}
            /\ values.value = None
    THEN "ValueError"
    ELSE "ok"

SubgroupCondition_init(type, value, min_value, max_value) ==
    LET values == [type |-> type, value |-> str_validator(value),
                   min_value |-> min_value, max_value |-> max_value]
    IN  IF type \in ConditionTypes /\ validate_condition(values) = "ok"
        THEN [raised |-> "no", condition |-> values]
        ELSE [raised |-> "ValidationError"]

_convert_condition_to_dict(condition) ==
    IF condition.type = "range"
    THEN IF condition.min_value = None /\ condition.max_value = None
         THEN [raised |-> "ValueError"]
         ELSE [raised |-> "no",
               condition_dict |->
                 ("type" :> condition.type)
                 @@ (IF condition.min_value # None
                     THEN ("min_value" :> condition.min_value[1]) ELSE <<>>)
                 @@ (IF condition.max_value # None
                     THEN ("max_value" :> condition.max_value[1]) ELSE <<>>)]
    ELSE IF condition.type \in {"value", "contains", "year", "month", "day"}
    THEN IF condition.value = None
         THEN [raised |-> "ValueError"]
         ELSE [raised |-> "no",
               condition_dict |-> ("type" :> condition.type)
                                  @@ ("value" :> condition.value[1])]
    ELSE [raised |-> "ValueError"]

ConditionValues == {None, Some([str |-> "a"]), Some([int |-> 0])}

ConditionBounds == {None} \cup {Some(b) : b \in 0..MaxBound}

NewSubgroupCondition(type, value, min_value, max_value) ==
    /\ LET made == SubgroupCondition_init(type, value, min_value, max_value)
       IN  response' =
             [op |-> "SubgroupCondition", type |-> type, value |-> value,
              min_value |-> min_value, max_value |-> max_value,
              result |-> IF made.raised # "no" THEN made
                         ELSE [raised |-> "no", condition |-> made.condition,
                               slice |-> _convert_condition_to_dict(made.condition)]]
    /\ UNCHANGED <<evaluation_endpoints, models, endpoint_files, model_files, now, uuids,
                   calls, requests, completed>>

CheckCriterion(operator, threshold, metric_value) ==
    /\ response' = [op |-> "check_criterion", operator |-> operator,
                    threshold |-> threshold, metric_value |-> metric_value,
                    result |-> check_criterion(
                        EvaluationCriterion(accuracy_name, operator, threshold),
                        metric_value)]
    /\ UNCHANGED <<evaluation_endpoints, models, endpoint_files, model_files, now, uuids,
                   calls, requests, completed>>

Scores == 0..MaxScore

NextInputs ==
    \/ \E operator \in Operators \cup {"==", "!="}, threshold \in Scores,
          metric_value \in Scores :
          CheckCriterion(operator, threshold, metric_value)
    \/ \E name \in MetricNames, type \in MetricTypes : NewMetricConfig(name, type)
    \/ \E type \in ConditionTypes, value \in ConditionValues,
          min_value \in ConditionBounds, max_value \in ConditionBounds :
          NewSubgroupCondition(type, value, min_value, max_value)

SpecInputs == Init /\ [][NextInputs]_vars

(***************************************************************************)
(* Properties                                                              *)
(***************************************************************************)
Last(seq) == seq[Len(seq)]

IsPrefix(a, b) == Len(a) <= Len(b) /\ SubSeq(b, 1, Len(a)) = a

HistoryOf(endpoints, endpoint_name, model_id) ==
    LET history == endpoints[endpoint_name].data.evaluation_history
    IN  IF model_id \in DOMAIN history THEN history[model_id] ELSE <<>>

EvaluateReturned(r) == r.op = "evaluate_model" /\ r.status = "ok"

(* the k-th card of the collection is about this metric and this slice *)
CardMetric(latest, k) ==
    latest.metrics[((k - 1) \div (Len(latest.subgroups) + 1)) + 1]

CardSlice(latest, k) ==
    (latest.subgroups \o <<"overall">>)[((k - 1) % (Len(latest.subgroups) + 1)) + 1]

C2_Step ==
    \/ response'.op = "delete_evaluation_endpoint"
    \/ /\ DOMAIN evaluation_endpoints \subseteq DOMAIN evaluation_endpoints'
       /\ \A endpoint_name \in DOMAIN evaluation_endpoints :
            LET before == evaluation_endpoints[endpoint_name].data.evaluation_history
                after == evaluation_endpoints'[endpoint_name].data.evaluation_history
            IN  /\ DOMAIN before \subseteq DOMAIN after
                /\ \A model_id \in DOMAIN before :
                      IsPrefix(before[model_id], after[model_id])
       /\ (EvaluateReturned(response') /\ calls'.evals # calls.evals) =>
            \A endpoint_name \in DOMAIN evaluation_endpoints', model_id \in ModelIds \cup {GhostId} :
               Len(HistoryOf(evaluation_endpoints', endpoint_name, model_id)) =
                  Len(HistoryOf(evaluation_endpoints, endpoint_name, model_id))
                  + (IF /\ endpoint_name = response'.endpoint_name
                        /\ model_id = response'.model_id
                     THEN 1 ELSE 0)

C2_HistoryAppendOnly == [][C2_Step]_vars

(* a model with two evaluations was removed from its endpoint and the *)
(* evaluations are still there                                        *)
C2_Witness ==
    /\ response.op = "remove_model_from_endpoint"
    /\ response.status = "ok"
    /\ \E endpoint_name \in DOMAIN evaluation_endpoints :
          Len(HistoryOf(evaluation_endpoints, endpoint_name, response.model_id)) = 2

(* C3: an evaluate call whose preds_prob and target differ in length is   *)
(* refused when the EvaluationInput is constructed, with a validation     *)
(* error.                                                                  *)
C3_LengthMismatchRejected ==
    (response.op = "evaluate_model" /\ response.n_preds # response.n_target)
        => response.status = "ValidationError"

(* C4: the aggregation for an endpoint that exists and a model without    *)
(* evaluations answers normally with has_data false, the latest result    *)
(* absent and no cards, and raises nothing.                                *)
C4_EmptyHistoryHasNoData ==
    ( /\ response.op = "get_performance_metrics"
      /\ response.endpoint_name \in DOMAIN endpoint_files
      /\ Len(model_history(endpoint_files[response.endpoint_name],
                           response.model_id)) = 0 )
        => /\ response.result.status = 200
           /\ "has_data" \in DOMAIN response.result.overview
           /\ response.result.overview.has_data = FALSE
           /\ response.result.overview.metric_cards.collection = <<>>

ComputationFailed(r) == r.op = "evaluate_model" /\ r.status = "ComputationError"

(* C5: an evaluate call in which the metric computation fails answers     *)
(* with the error and leaves the endpoints in memory (histories, logs,    *)
(* models) and the persisted endpoint data exactly as they were.           *)
C5_FailedComputationRecordsNothing ==
    [][ComputationFailed(response') =>
          /\ evaluation_endpoints' = evaluation_endpoints
          /\ endpoint_files' = endpoint_files]_vars

(* the computation failed on an endpoint that holds an evaluation *)
C5_Witness ==
    /\ ComputationFailed(response)
    /\ \E endpoint_name \in DOMAIN evaluation_endpoints :
          \E model_id \in DOMAIN
                evaluation_endpoints[endpoint_name].data.evaluation_history :
             Len(HistoryOf(evaluation_endpoints, endpoint_name, model_id)) > 0

(* C6: an evaluate call whose result cannot be persisted leaves the       *)
(* endpoints in memory as they were before the call.                       *)
C6_PersistFailureDiscardsResult ==
    [][(response'.op = "evaluate_model" /\ response'.status = "PersistenceError")
          => evaluation_endpoints' = evaluation_endpoints]_vars

(* C7: when no evaluate request is in progress, the history of every      *)
(* endpoint and model, in memory and in the persisted endpoint data,      *)
(* holds one entry per evaluate request that returned.                     *)
C7_NoLostUpdates ==
    AllIdle =>
        \A key \in DOMAIN completed :
            /\ Len(HistoryOf(evaluation_endpoints, key[1], key[2])) = completed[key]
            /\ Len(model_history(endpoint_files[key[1]], key[2])) = completed[key]

SafetyReturned(r) == r.op = "get_model_safety" /\ r.result.status = 200

PeriodHours(record) ==
    IF record.evaluation_frequency = None THEN 30 * 24
    ELSE LET f == record.evaluation_frequency[1]
         IN  CASE f.unit = "hours" -> f.value
               [] f.unit = "days" -> 24 * f.value
               [] f.unit = "weeks" -> 7 * 24 * f.value
               [] f.unit = "months" -> 30 * 24 * f.value

C10_RegistryNamedCriterionMet ==
    ( /\ SafetyReturned(response)
      /\ model_files[response.model_id].evaluation_criteria =
            <<EvaluationCriterion(binary_accuracy, ">=", 80)>>
      /\ LET performance ==
                get_performance_metrics(endpoint_files,
                    model_files[response.model_id].endpoints[1], response.model_id)
         IN  \A k \in 1..Len(performance.overview.metric_cards.collection) :
                performance.overview.metric_cards.collection[k].value = 85 )
        => \E i \in 1..Len(response.result.metrics) :
              /\ response.result.metrics[i].name = binary_accuracy
              /\ response.result.metrics[i].status = "met"

(* the cards the safety verdict of a stored model record is computed from *)
CardsOf(model_id) ==
    get_performance_metrics(endpoint_files, model_files[model_id].endpoints[1],
                            model_id).overview.metric_cards.collection

(* some card carries the criterion's metric name, letter case aside *)
HasCard(model_id, criterion) ==
    \E k \in 1..Len(CardsOf(model_id)) :
        lower(CardsOf(model_id)[k].name) = lower(criterion.metric_name)

C12_CheckCriterion ==
    response.op = "check_criterion" =>
        LET o == response.operator
            t == response.threshold
            v == response.metric_value
        IN  /\ o = ">" => response.result = (v > t)
            /\ o = "<" => response.result = (v < t)
            /\ o = "=" => response.result = (v = t)
            /\ o = ">=" => response.result = (v >= t)
            /\ o = "<=" => response.result = (v <= t)
            /\ o \notin {">", "<", "=", ">=", "<="} => response.result = "ValueError"

(* ">=" was applied to a value that equals the threshold *)
C12_Witness ==
    /\ response.op = "check_criterion"
    /\ response.operator = ">="
    /\ response.metric_value = response.threshold
    /\ response.result = TRUE

(* C13: the construction of a MetricConfig whose type and name, joined by *)
(* "_", are not in VALID_METRIC_NAMES is refused.                          *)
C13_UnknownMetricRejected ==
    ( /\ response.op = "MetricConfig"
      /\ TypeName(response.type, response.name) \notin VALID_METRIC_NAMES )
        => response.result.raised # "no"

(* the slice keys a condition supplies: its bounds when it is a range,    *)
(* its value otherwise                                                     *)
SuppliedKeys(r) ==
    IF r.type = "range"
    THEN (IF r.min_value # None THEN {"min_value"} ELSE {})
         \cup (IF r.max_value # None THEN {"max_value"} ELSE {})
    ELSE {"value"}

EndpointCalls ==
    {"evaluate_model", "add_model_to_endpoint", "remove_model_from_endpoint",
     "delete_evaluation_endpoint"}

(* the call that has just returned named an endpoint that was not         *)
(* registered when it was made                                             *)
CalledUnknownEndpoint ==
    /\ response'.op \in EndpointCalls
    /\ response'.op = "evaluate_model" => response'.status # "ValidationError"
    /\ response'.endpoint_name \notin DOMAIN evaluation_endpoints

(* C15: evaluate_model, add_model_to_endpoint, remove_model_from_endpoint *)
(* and delete_evaluation_endpoint, called with the name of an endpoint    *)
(* that is not registered, raise the not-found ValueError and leave both  *)
(* registries (with all histories and logs) and all files as they were.   *)
C15_UnknownEndpointNotFound ==
    [][CalledUnknownEndpoint =>
          /\ response'.status = "ValueError"
          /\ UNCHANGED <<evaluation_endpoints, models, endpoint_files, model_files>>]_vars

(* evaluate was called for an endpoint that had been deleted, a model     *)
(* record being stored                                                     *)
C15_Witness ==
    /\ response.op = "evaluate_model"
    /\ response.status = "ValueError"
    /\ response.endpoint_name \notin DOMAIN evaluation_endpoints
    /\ DOMAIN model_files # {}

(* C16: an evaluate call that returned a result was made for a model that *)
(* is listed in the endpoint.                                              *)
C16_UnknownModelNotFound ==
    (response.op = "evaluate_model" /\ response.status = "ok")
        => response.model_id \in
              Range(evaluation_endpoints[response.endpoint_name].data.models)

(* C17: a safety query for a model id without a stored record, or for a  *)
(* stored model without an endpoint, is answered with HTTP 404.            *)
C17_SafetyNotFound ==
    ( /\ response.op = "get_model_safety"
      /\ \/ response.model_id \notin DOMAIN model_files
         \/ Len(model_files[response.model_id].endpoints) = 0 )
        => response.result.status = 404

NoDuplicates(seq) == \A i, j \in 1..Len(seq) : seq[i] = seq[j] => i = j

(* C19: the aggregation lists every slice once, "overall" among them, and *)
(* holds one card and no more for every metric and slice of the latest    *)
(* evaluation result.                                                      *)
C19_OneCardPerMetricAndSlice ==
    (response.op = "get_performance_metrics" /\ response.result.status = 200) =>
        LET cards == response.result.overview.metric_cards
            latest == Last(model_history(endpoint_files[response.endpoint_name],
                                         response.model_id))
            pair(card) == <<card.name, card.slice>>
        IN  /\ NoDuplicates(cards.slices)
            /\ \E i \in 1..Len(cards.slices) : cards.slices[i] = "overall"
            /\ NoDuplicates([c \in 1..Len(cards.collection) |->
                                pair(cards.collection[c])])
            /\ \A m \in 1..Len(latest.metrics) :
                  \A sl \in DOMAIN latest.evaluation_result.model_for_preds_prob :
                     \E c \in 1..Len(cards.collection) :
                        pair(cards.collection[c]) =
                            <<format_metric_name(latest.metrics[m]), sl>>

(* C20: the result an evaluate call records and returns lists the metrics *)
(* of the endpoint's configuration as type_name in the configured order,  *)
(* lists the slice "overall", holds for every slice it lists one value    *)
(* for each configured metric and no other, and has the number of         *)
(* predictions of the input as its sample size.                            *)
C20_ResultShape ==
    EvaluateReturned(response) =>
        LET recorded == response.evaluation_result
            config == evaluation_endpoints[response.endpoint_name].config
            values == recorded.evaluation_result.model_for_preds_prob
        IN  /\ Len(recorded.metrics) = Len(config.metrics)
            /\ \A i \in 1..Len(config.metrics) :
                  recorded.metrics[i] =
                      Str("_", config.metrics[i].type.words \o config.metrics[i].name.words)
            /\ \E i \in 1..Len(recorded.subgroups) : recorded.subgroups[i] = "overall"
            /\ \A i \in 1..Len(recorded.subgroups) :
                  /\ recorded.subgroups[i] \in DOMAIN values
                  /\ DOMAIN values[recorded.subgroups[i]] = Range(recorded.metrics)
                  /\ \A metric \in Range(recorded.metrics) :
                        values[recorded.subgroups[i]][metric] \in Int
            /\ recorded.sample_size = response.n_preds
            /\ Last(HistoryOf(evaluation_endpoints, response.endpoint_name,
                              response.model_id)) = recorded

(* a batch of one row was evaluated after a batch of two rows *)
C20_Witness ==
    /\ EvaluateReturned(response)
    /\ response.n_preds = 1
    /\ response.evaluation_result.sample_size = 1
    /\ Len(HistoryOf(evaluation_endpoints, response.endpoint_name,
                     response.model_id)) = 2
    /\ Len(response.evaluation_result.metrics) = 2

C22_RemoveModelRemovesHistory ==
    ( /\ response.op = "remove_model_from_endpoint"
      /\ response.status = "ok" )
        => /\ response.model_id \notin DOMAIN
                 evaluation_endpoints[response.endpoint_name].data.evaluation_history
           /\ response.model_id \notin DOMAIN
                 endpoint_files[response.endpoint_name].evaluation_history

(* C23: no operation changes the configuration of an endpoint that stays   *)
(* registered: the endpoint's config, the config inside its data and the   *)
(* config in its file are after every step what they were before it, and   *)
(* the three agree.                                                        *)
C23_Step ==
    /\ \A endpoint_name \in DOMAIN evaluation_endpoints \cap DOMAIN evaluation_endpoints' :
          /\ evaluation_endpoints'[endpoint_name].config
                = evaluation_endpoints[endpoint_name].config
          /\ evaluation_endpoints'[endpoint_name].data.config
                = evaluation_endpoints[endpoint_name].data.config
    /\ \A endpoint_name \in DOMAIN endpoint_files \cap DOMAIN endpoint_files' :
          endpoint_files'[endpoint_name].config = endpoint_files[endpoint_name].config
    /\ \A endpoint_name \in DOMAIN evaluation_endpoints' :
          /\ evaluation_endpoints'[endpoint_name].data.config
                = evaluation_endpoints'[endpoint_name].config
          /\ endpoint_name \in DOMAIN endpoint_files' =>
                endpoint_files'[endpoint_name].config
                    = evaluation_endpoints'[endpoint_name].config

C23_ConfigImmutable == [][C23_Step]_vars

C23_Witness ==
    /\ response.op = "load_all_endpoints"
    /\ \E endpoint_name \in DOMAIN evaluation_endpoints :
          LET data == evaluation_endpoints[endpoint_name].data
          IN  /\ \E model_id \in DOMAIN data.evaluation_history :
                    data.evaluation_history[model_id] # <<>>
              /\ \E i \in 1..Len(data.logs) : data.logs[i].action = "removed_model"
              /\ data.config \in Configs

FileHistoryOf(files, endpoint_name, model_id) ==
    LET history == files[endpoint_name].evaluation_history
    IN  IF model_id \in DOMAIN history THEN history[model_id] ELSE <<>>

(* the keys an evaluate call that gave this response may have written *)
WrittenKeys(r) ==
    IF "model_id" \in DOMAIN r THEN {Key(r.endpoint_name, r.model_id)} ELSE {}

C24_Frame ==
    response'.op = "evaluate_model" =>
        /\ DOMAIN evaluation_endpoints' = DOMAIN evaluation_endpoints
        /\ DOMAIN endpoint_files' = DOMAIN endpoint_files
        /\ \A endpoint_name \in DOMAIN evaluation_endpoints,
              model_id \in ModelIds \cup {GhostId} :
              Key(endpoint_name, model_id) \notin WrittenKeys(response') =>
                 /\ HistoryOf(evaluation_endpoints', endpoint_name, model_id)
                       = HistoryOf(evaluation_endpoints, endpoint_name, model_id)
                 /\ endpoint_name \in DOMAIN endpoint_files =>
                       FileHistoryOf(endpoint_files', endpoint_name, model_id)
                          = FileHistoryOf(endpoint_files, endpoint_name, model_id)
        /\ \A endpoint_name \in DOMAIN evaluation_endpoints :
              endpoint_name # response'.endpoint_name =>
                 /\ evaluation_endpoints'[endpoint_name] = evaluation_endpoints[endpoint_name]
                 /\ endpoint_name \in DOMAIN endpoint_files =>
                       endpoint_files'[endpoint_name] = endpoint_files[endpoint_name]

(* C24: an evaluate call, whether it succeeds or fails, changes the        *)
(* history of no key other than its own (endpoint, model), in memory and   *)
(* in the files, and changes nothing of any other endpoint.                *)
C24_Independent == [][C24_Frame]_vars

(* the columns of the input of a call whose length is not that of preds_prob *)
MismatchedColumns(r) == {key \in DOMAIN r.n_metadata : r.n_metadata[key] # r.n_preds}

(* C25: an evaluate call whose input has a metadata column of a length     *)
(* other than that of preds_prob is refused with a validation error that   *)
(* names a column of the wrong length, the first one listed, and the call  *)
(* leaves the registry, the files and the count of evaluations as they     *)
(* were.                                                                   *)
C25_Step ==
    (response'.op = "evaluate_model" /\ MismatchedColumns(response') # {}) =>
        /\ response'.status = "ValidationError"
        /\ \E i \in 1..Len(response'.errors) :
              /\ response'.errors[i].loc = "metadata"
              /\ response'.errors[i].key \in MismatchedColumns(response')
              /\ \A j \in 1..Len(MetadataColumns) :
                    MetadataColumns[j] \in MismatchedColumns(response') =>
                       \E k \in 1..j : MetadataColumns[k] = response'.errors[i].key
        /\ UNCHANGED <<evaluation_endpoints, models, endpoint_files, model_files, calls>>

C25_MetadataLengthRejected == [][C25_Step]_vars

(* refused inputs: one whose only short column is listed second, and one   *)
(* with two columns of the wrong length, while the endpoint exists         *)
C25_Witness ==
    /\ response.op = "evaluate_model"
    /\ response.status = "ValidationError"
    /\ response.endpoint_name \in DOMAIN evaluation_endpoints
    /\ MismatchedColumns(response) = {"age", "sex"}
    /\ response.errors = <<[loc |-> "metadata", key |-> "age"]>>

(* the names that were given to an endpoint and are registered no more *)
Deleted == (1..uuids.endpoint) \ DOMAIN evaluation_endpoints

EndpointOps ==
    {"evaluate_model", "add_model_to_endpoint", "remove_model_from_endpoint",
     "delete_evaluation_endpoint"}

C26_Step ==
    /\ (response'.op = "delete_evaluation_endpoint" /\ response'.status = "ok") =>
          /\ response'.endpoint_name \notin DOMAIN evaluation_endpoints'
          /\ response'.endpoint_name \notin DOMAIN endpoint_files'
    /\ \A endpoint_name \in Deleted :
          /\ endpoint_name \notin DOMAIN evaluation_endpoints'
          /\ endpoint_name \notin DOMAIN endpoint_files'
          /\ (response'.op \in EndpointOps /\ response'.endpoint_name = endpoint_name)
                => response'.status = "ValueError"
    /\ \A endpoint_name \in Deleted' :
          /\ load(endpoint_files', endpoint_name).raised = "ValueError"
          /\ endpoint_name \notin list_evaluation_endpoints'

(* C26: a successful delete_evaluation_endpoint leaves the name out of the *)
(* registry and leaves no file of it; from then on evaluate, add_model,    *)
(* remove_model and delete on that name fail with the not-found error,     *)
(* loading it fails with the not-found error, the listing does not show    *)
(* it, and a restart of the process does not bring it back.                *)
C26_DeletedStaysDeleted == [][C26_Step]_vars

(* a second delete of an endpoint that had recorded an evaluation *)
C26_Witness ==
    /\ response.op = "delete_evaluation_endpoint"
    /\ response.status = "ValueError"
    /\ response.endpoint_name \in Deleted
    /\ \E model_id \in ModelIds \cup {GhostId} :
          Key(response.endpoint_name, model_id) \in DOMAIN completed

(* the number of evaluate calls that returned, over all keys *)
RECURSIVE CompletedOver(_)
CompletedOver(keys) ==
    IF keys = {} THEN 0
    ELSE LET k == CHOOSE x \in keys : TRUE
         IN  completed[k] + CompletedOver(keys \ {k})

(* every evaluation that was recorded in memory was also written *)
NoFailedWrite == calls.evals = CompletedOver(DOMAIN completed)

CompletedOps ==
    {"create_evaluation_endpoint", "add_model_to_endpoint",
     "remove_model_from_endpoint", "evaluate_model"}

C28_ReferentialIntegrity ==
    /\ \A model_id \in DOMAIN models :
          Range(models[model_id].endpoints) \subseteq DOMAIN evaluation_endpoints
    /\ \A model_id \in DOMAIN model_files :
          /\ Range(model_files[model_id].endpoints) \subseteq DOMAIN evaluation_endpoints
          /\ Range(model_files[model_id].endpoints) \subseteq DOMAIN endpoint_files
    /\ \A endpoint_name \in DOMAIN evaluation_endpoints :
          /\ Range(evaluation_endpoints[endpoint_name].data.models) \subseteq DOMAIN models
          /\ Range(evaluation_endpoints[endpoint_name].data.models)
                \subseteq DOMAIN model_files

(* the stored evaluations of the model in the first endpoint of its record *)
StoredHistory(model_id) ==
    FileHistoryOf(endpoint_files, model_files[model_id].endpoints[1], model_id)

Matches(card, criterion) == lower(card.name) = lower(criterion.metric_name)

(* the slices of the cards of a model, in the order they are collected *)
SlicesOf(model_id) ==
    LET history == StoredHistory(model_id)
    IN  Last(history).subgroups \o <<"overall">>

====
